---- MODULE Spec2Model ----
(***************************************************************************)
(* Verification model of rohak.py: the Gemini story generator.            *)
(*                                                                         *)
(* Text is a sequence of one-character strings, so that the regular        *)
(* expressions, strip(), split('.') and startswith() of the source are     *)
(* computed character by character.                                        *)
(***************************************************************************)
EXTENDS Integers, Sequences, FiniteSets, TLC

VARIABLES
    \* clean_response on its own
    raw,            \* the text handed to clean_response
    cleaned,        \* what clean_response returned for raw
    recleaned,      \* what clean_response returned for cleaned
    phase,          \* "raw", "cleaned" or "recleaned"
    \* create_story_prompt on its own
    args,           \* [premise, style, length]
    prompt,         \* what create_story_prompt returned for args, <<>> before
    \* the application
    api_key,        \* GEMINI_API_KEY is in the environment
    story_gen,      \* 'story_gen' in st.session_state
    current_story,  \* st.session_state.current_story, NoStory when unset
    story_config,   \* st.session_state.story_config, NoConfig when unset
    example,        \* st.session_state.example_premise/_style: 0 when unset,
                    \* else the number of the example (1-based)
    premise_w,      \* the text area's content
    style_w,        \* the style selectbox's value
    length_w,       \* the length selectbox's value
    pc,             \* where the script run is: "idle" between runs
    clicked,        \* the button whose click started this run, or "none"
    rendered,       \* the buttons the latest run has put on the page
    halted,         \* the latest run ended in st.stop()
    calls,          \* generate_content calls made so far
    action_calls,   \* generate_content calls made since the last user action
    last_action,    \* the last user action
    last_kind       \* the branch the last generate_story returned from

cleanVars == <<raw, cleaned, recleaned, phase>>

promptVars == <<args, prompt>>

appVars ==
    <<api_key, story_gen, current_story, story_config, example, premise_w, style_w,
      length_w, pc, clicked, rendered, halted, calls, action_calls, last_action,
      last_kind>>

vars == <<cleanVars, promptVars, appVars>>

(***************************************************************************)
(* Characters and Python's string primitives                               *)
(***************************************************************************)
NL == "\n"

\* str.isspace() on the characters that occur in the model's texts
Whitespace == {" ", NL, "\t"}

\* the characters \d matches
Digits == {"0", "1", "2", "3", "4", "5", "6", "7", "8", "9"}

UpperLetters ==
    <<"A","B","C","D","E","F","G","H","I","J","K","L","M",
      "N","O","P","Q","R","S","T","U","V","W","X","Y","Z">>

LowerLetters ==
    <<"a","b","c","d","e","f","g","h","i","j","k","l","m",
      "n","o","p","q","r","s","t","u","v","w","x","y","z">>

\* str.lower() of one character (also the case folding of re.IGNORECASE)
LowerChar(c) ==
    IF \E i \in 1..Len(UpperLetters) : UpperLetters[i] = c
    THEN LowerLetters[CHOOSE i \in 1..Len(UpperLetters) : UpperLetters[i] = c]
    ELSE c

\* str.lower()
Lower(s) == [i \in 1..Len(s) |-> LowerChar(s[i])]

Min(S) == CHOOSE x \in S : \A y \in S : x <= y

\* text[from:] as a 1-based suffix
Suffix(text, from) == SubSeq(text, from, Len(text))

\* text.startswith(prefix)
StartsWith(text, prefix) ==
    /\ Len(text) >= Len(prefix)
    /\ \A i \in 1..Len(prefix) : text[i] = prefix[i]

\* a case-insensitive literal of a pattern matching at position pos of text
MatchesAtCI(text, pos, lit) ==
    /\ pos >= 1
    /\ pos + Len(lit) - 1 <= Len(text)
    /\ \A i \in 1..Len(lit) : LowerChar(text[pos + i - 1]) = LowerChar(lit[i])

\* the index of the first character at or after pos that is not whitespace,
\* or Len(text) + 1
RECURSIVE SkipSpace(_, _)
SkipSpace(text, pos) ==
    IF pos > Len(text) \/ text[pos] \notin Whitespace THEN pos
    ELSE SkipSpace(text, pos + 1)

\* the index of the last character at or before pos that is not whitespace,
\* or 0
RECURSIVE SkipSpaceBack(_, _)
SkipSpaceBack(text, pos) ==
    IF pos < 1 \/ text[pos] \notin Whitespace THEN pos
    ELSE SkipSpaceBack(text, pos - 1)

\* a variant of Strip that is str.lstrip(): trailing whitespace stays
StripLeadingOnly(text) == Suffix(text, SkipSpace(text, 1))

\* str.strip(): drop leading and trailing whitespace
Strip(text) == SubSeq(text, SkipSpace(text, 1), SkipSpaceBack(text, Len(text)))

\* the index of the first "\n" at or after pos, or Len(text) + 1 when the
\* line has no terminator
LineEnd(text, pos) ==
    LET nls == {i \in pos..Len(text) : text[i] = NL}
    IN  IF nls = {} THEN Len(text) + 1 ELSE Min(nls)

(***************************************************************************)
(* clean_response: the substitutions of lines 76-80                        *)
(***************************************************************************)
HeresLit == <<"H","e","r","e","'","s">>

HereIsLit == <<"H","e","r","e"," ","i","s">>

ThisIsLit == <<"T","h","i","s"," ","i","s">>

StoryLit == <<"s","t","o","r","y">>

StoryColonLit == <<"S","t","o","r","y",":">>

\* the alternation (Here's|Here is|This is) anchored at the start of the
\* string: the length of the alternative that matches, or 0
PreambleHead(text) ==
    IF MatchesAtCI(text, 1, HeresLit) THEN Len(HeresLit)
    ELSE IF MatchesAtCI(text, 1, HereIsLit) THEN Len(HereIsLit)
    ELSE IF MatchesAtCI(text, 1, ThisIsLit) THEN Len(ThisIsLit)
    ELSE 0

\* the index of the last character of the match of
\* ^(Here's|Here is|This is).*?story.*?:  (re.IGNORECASE, no re.MULTILINE, "."
\* does not match "\n"), or 0 when the pattern does not match: the lazy .*?
\* take the first "story" after the head and the first ":" after it, both
\* before the first line break
PreambleEnd(text) ==
    LET head == PreambleHead(text)
        eol == LineEnd(text, 1)
        stories == {i \in (head + 1)..(eol - Len(StoryLit)) :
                        MatchesAtCI(text, i, StoryLit)}
        colons == IF stories = {} THEN {}
                  ELSE {j \in (Min(stories) + Len(StoryLit))..(eol - 1) :
                            text[j] = ":"}
    IN  IF head = 0 \/ colons = {} THEN 0 ELSE Min(colons)

\* re.sub(r'^(Here\'s|Here is|This is).*?story.*?:', '', text, flags=re.IGNORECASE)
SubPreamble(text) == Suffix(text, PreambleEnd(text) + 1)

\* re.sub(r'^Story:', '', text, flags=re.IGNORECASE)
SubStoryLabel(text) ==
    IF MatchesAtCI(text, 1, StoryColonLit)
    THEN Suffix(text, Len(StoryColonLit) + 1)
    ELSE text

\* ^\d+\.  at a line start: one or more digits, then "."
NumberedHead(text, pos) ==
    \E dot \in (pos + 1)..Len(text) :
        /\ text[dot] = "."
        /\ \A i \in pos..(dot - 1) : text[i] \in Digits

\* ^\*  at a line start
BulletHead(text, pos) == pos <= Len(text) /\ text[pos] = "*"

\* re.sub(r'^<head>.*?\n', '', text, flags=re.MULTILINE) from the line that
\* starts at pos: a line that starts with the head and ends in "\n" is
\* removed with its "\n"; a last line without "\n" never matches
RECURSIVE SubLines(_, _, _)
SubLines(text, pos, numbered) ==
    LET eol == LineEnd(text, pos)
        hit == IF numbered THEN NumberedHead(text, pos) ELSE BulletHead(text, pos)
    IN  IF eol > Len(text) THEN Suffix(text, pos)
        ELSE IF hit THEN SubLines(text, eol + 1, numbered)
        ELSE SubSeq(text, pos, eol) \o SubLines(text, eol + 1, numbered)

\* re.sub(r'^\d+\..*?\n', '', text, flags=re.MULTILINE)
SubNumbered(text) == SubLines(text, 1, TRUE)

\* re.sub(r'^\*.*?\n', '', text, flags=re.MULTILINE)
SubBullets(text) == SubLines(text, 1, FALSE)

\* re.sub(r'\n{3,}', '\n\n', text): of every run of line breaks the third and
\* later ones are dropped
RECURSIVE SkipBreaks(_, _)
SkipBreaks(text, pos) ==
    IF pos > Len(text) \/ text[pos] # NL THEN pos ELSE SkipBreaks(text, pos + 1)

RECURSIVE SubBlankLines(_, _)
SubBlankLines(text, pos) ==
    LET runs == {i \in pos..(Len(text) - 2) :
                    text[i] = NL /\ text[i + 1] = NL /\ text[i + 2] = NL}
        start == Min(runs)
    IN  IF runs = {} THEN Suffix(text, pos)
        ELSE SubSeq(text, pos, start + 1) \o SubBlankLines(text, SkipBreaks(text, start))

\* lines 76-83: the five substitutions, then strip()
Cleaned(text) ==
    Strip(SubBlankLines(SubBullets(SubNumbered(SubStoryLabel(SubPreamble(text)))), 1))

(***************************************************************************)
(* clean_response: the validation of lines 86-94                           *)
(***************************************************************************)
\* len(text) < 100 rejects (line 86)
MinStoryLen == 100

\* len(sentences) > 10 turns the repetition check on (line 91)
MinSentences == 10

\* the factor 0.7 of line 93, as RatioNum / RatioDen
RatioNum == 7

RatioDen == 10

\* text.split('.'): the pieces between the "." characters, from pos on; a
\* text with k "." has k + 1 pieces, empty ones included
RECURSIVE Split(_, _)
Split(text, pos) ==
    LET dots == {i \in pos..Len(text) : text[i] = "."}
    IN  IF dots = {} THEN <<Suffix(text, pos)>>
        ELSE <<SubSeq(text, pos, Min(dots) - 1)>> \o Split(text, Min(dots) + 1)

\* a variant of UniqueSentences without .lower()
UniqueSentencesCaseSensitive(sentences) ==
    {Strip(sentences[i]) :
        i \in {k \in 1..Len(sentences) : Strip(sentences[k]) # <<>>}}

\* set(s.strip().lower() for s in sentences if s.strip())
UniqueSentences(sentences) ==
    {Lower(Strip(sentences[i])) :
        i \in {k \in 1..Len(sentences) : Strip(sentences[k]) # <<>>}}

\* len(unique_sentences) < len(sentences) * 0.7: the double product n * 0.7
\* is within one ulp of 7n/10 and never above it when 7n/10 is an integer, so
\* for integers the comparison is the exact one
BelowRatio(unique, total) == unique * RatioDen < total * RatioNum

\* lines 90-94
Repetitive(text) ==
    LET sentences == Split(text, 1)
    IN  /\ Len(sentences) > MinSentences
        /\ BelowRatio(Cardinality(UniqueSentences(sentences)), Len(sentences))

ErrEmpty ==
    <<"E","r","r","o","r",":"," ","E","m","p","t","y"," ","r","e","s","p","o","n","s","e"," ",
      "f","r","o","m"," ","A","I">>

ErrTooShort ==
    <<"E","r","r","o","r",":"," ","S","t","o","r","y"," ","t","o","o"," ","s","h","o","r","t",
      "."," ","P","l","e","a","s","e"," ","t","r","y"," ","a","g","a","i","n",".">>

ErrRepetitive ==
    <<"E","r","r","o","r",":"," ","D","e","t","e","c","t","e","d"," ","r","e","p","e","t","i",
      "t","i","v","e"," ","c","o","n","t","e","n","t","."," ","P","l","e","a","s","e"," ","r",
      "e","g","e","n","e","r","a","t","e",".">>

\* lines 86-94 on the cleaned text: the tag of the branch taken
Validate(text) ==
    IF Len(text) < MinStoryLen THEN "too_short"
    ELSE IF Repetitive(text) THEN "repetitive"
    ELSE "ok"

\* the branch clean_response returns from: the tag of its outcome
CleanKind(text) == IF text = <<>> THEN "empty" ELSE Validate(Cleaned(text))

\* StoryGenerator.clean_response
clean_response(text) ==
    IF text = <<>> THEN ErrEmpty
    ELSE LET story == Cleaned(text)
             kind == Validate(story)
         IN  IF kind = "too_short" THEN ErrTooShort
             ELSE IF kind = "repetitive" THEN ErrRepetitive
             ELSE story

(***************************************************************************)
(* create_story_prompt (lines 28-68)                                       *)
(***************************************************************************)
StyleAdventurous ==
    <<"a","d","v","e","n","t","u","r","o","u","s">>

StyleMysterious ==
    <<"m","y","s","t","e","r","i","o","u","s">>

StyleRomantic ==
    <<"r","o","m","a","n","t","i","c">>

StyleScifi ==
    <<"s","c","i","-","f","i">>

StyleFantasy ==
    <<"f","a","n","t","a","s","y">>

StyleHorror ==
    <<"h","o","r","r","o","r">>

StyleComedy ==
    <<"c","o","m","e","d","y">>

StyleDrama ==
    <<"d","r","a","m","a">>

LengthShort ==
    <<"s","h","o","r","t">>

LengthMedium ==
    <<"m","e","d","i","u","m">>

LengthLong ==
    <<"l","o","n","g">>

DescrAdventurous ==
    <<"f","i","l","l","e","d"," ","w","i","t","h"," ","a","c","t","i","o","n",","," ","e","x",
      "c","i","t","e","m","e","n","t",","," ","d","a","n","g","e","r",","," ","a","n","d"," ",
      "t","h","r","i","l","l","i","n","g"," ","m","o","m","e","n","t","s">>

DescrMysterious ==
    <<"w","i","t","h"," ","s","u","s","p","e","n","s","e",","," ","i","n","t","r","i","g","u",
      "e",","," ","h","i","d","d","e","n"," ","s","e","c","r","e","t","s",","," ","a","n","d",
      " ","u","n","e","x","p","e","c","t","e","d"," ","r","e","v","e","l","a","t","i","o","n",
      "s">>

DescrRomantic ==
    <<"f","o","c","u","s","i","n","g"," ","o","n"," ","l","o","v","e",","," ","r","e","l","a",
      "t","i","o","n","s","h","i","p","s",","," ","e","m","o","t","i","o","n","a","l"," ","c",
      "o","n","n","e","c","t","i","o","n","s",","," ","a","n","d"," ","h","e","a","r","t","f",
      "e","l","t"," ","m","o","m","e","n","t","s">>

DescrScifi ==
    <<"w","i","t","h"," ","f","u","t","u","r","i","s","t","i","c"," ","t","e","c","h","n","o",
      "l","o","g","y",","," ","s","p","a","c","e"," ","t","r","a","v","e","l",","," ","s","c",
      "i","e","n","t","i","f","i","c"," ","c","o","n","c","e","p","t","s",","," ","a","n","d",
      " ","a","d","v","a","n","c","e","d"," ","c","i","v","i","l","i","z","a","t","i","o","n",
      "s">>

DescrFantasy ==
    <<"w","i","t","h"," ","m","a","g","i","c",","," ","m","y","t","h","i","c","a","l"," ","c",
      "r","e","a","t","u","r","e","s",","," ","e","n","c","h","a","n","t","e","d"," ","w","o",
      "r","l","d","s",","," ","a","n","d"," ","s","u","p","e","r","n","a","t","u","r","a","l",
      " ","e","l","e","m","e","n","t","s">>

DescrHorror ==
    <<"w","i","t","h"," ","s","c","a","r","y",","," ","f","r","i","g","h","t","e","n","i","n",
      "g",","," ","s","u","s","p","e","n","s","e","f","u","l",","," ","a","n","d"," ","s","p",
      "i","n","e","-","c","h","i","l","l","i","n","g"," ","e","l","e","m","e","n","t","s">>

DescrComedy ==
    <<"h","u","m","o","r","o","u","s",","," ","f","u","n","n","y",","," ","w","i","t","t","y",
      ","," ","a","n","d"," ","e","n","t","e","r","t","a","i","n","i","n","g"," ","w","i","t",
      "h"," ","c","o","m","e","d","i","c"," ","s","i","t","u","a","t","i","o","n","s">>

DescrDrama ==
    <<"e","m","o","t","i","o","n","a","l","l","y"," ","i","n","t","e","n","s","e"," ","w","i",
      "t","h"," ","r","e","a","l","i","s","t","i","c"," ","c","h","a","r","a","c","t","e","r",
      "s",","," ","c","o","n","f","l","i","c","t","s",","," ","a","n","d"," ","h","u","m","a",
      "n"," ","s","t","r","u","g","g","l","e","s">>

WordsShort ==
    <<"4","0","0","-","6","0","0"," ","w","o","r","d","s">>

WordsMedium ==
    <<"7","0","0","-","9","0","0"," ","w","o","r","d","s">>

WordsLong ==
    <<"1","0","0","0","-","1","3","0","0"," ","w","o","r","d","s">>

DefaultDescr ==
    <<"e","n","g","a","g","i","n","g">>

DefaultWords ==
    <<"5","0","0"," ","w","o","r","d","s">>

\* the selectbox options of lines 155 and 162, in order
Styles ==
    <<StyleAdventurous, StyleMysterious, StyleRomantic, StyleScifi, StyleFantasy, StyleHorror, StyleComedy, StyleDrama>>

Lengths ==
    <<LengthShort, LengthMedium, LengthLong>>

\* the dict of lines 37-46, as the sequence of its values in key order
style_instructions ==
    <<DescrAdventurous, DescrMysterious, DescrRomantic, DescrScifi, DescrFantasy, DescrHorror, DescrComedy, DescrDrama>>

\* the dict of lines 31-35
word_counts ==
    <<WordsShort, WordsMedium, WordsLong>>

\* dict.get(key, default) on a dict given by its keys and values
DictGet(keys, values, key, default) ==
    IF \E i \in 1..Len(keys) : keys[i] = key
    THEN values[CHOOSE i \in 1..Len(keys) : keys[i] = key]
    ELSE default

\* the literal parts of the f-string of lines 48-68
PromptHead ==
    <<"Y","o","u"," ","a","r","e"," ","a"," ","p","r","o","f","e","s","s","i","o","n","a","l",
      " ","s","t","o","r","y","t","e","l","l","e","r","."," ","W","r","i","t","e"," ","a"," ",
      "c","o","m","p","l","e","t","e",","," ","e","n","g","a","g","i","n","g"," ","s","t","o",
      "r","y"," ","b","a","s","e","d"," ","o","n"," ","t","h","i","s"," ","p","r","e","m","i",
      "s","e",":"," ">>

PromptStyle ==
    <<"\n","\n","S","T","O","R","Y"," ","R","E","Q","U","I","R","E","M","E","N","T","S",":",
      "\n","-"," ","S","t","y","l","e",":"," ">>

PromptOpen ==
    <<" ","(">>

PromptLength ==
    <<")","\n","-"," ","L","e","n","g","t","h",":"," ">>

PromptTail ==
    <<"\n","-"," ","F","o","r","m","a","t",":"," ","C","o","m","p","l","e","t","e"," ","n","a",
      "r","r","a","t","i","v","e"," ","s","t","o","r","y","\n","-"," ","S","t","r","u","c","t",
      "u","r","e",":"," ","C","l","e","a","r"," ","b","e","g","i","n","n","i","n","g",","," ",
      "m","i","d","d","l","e",","," ","a","n","d"," ","e","n","d","\n","-"," ","C","h","a","r",
      "a","c","t","e","r","s",":"," ","W","e","l","l","-","d","e","v","e","l","o","p","e","d",
      " ","w","i","t","h"," ","d","i","s","t","i","n","c","t"," ","p","e","r","s","o","n","a",
      "l","i","t","i","e","s","\n","-"," ","S","e","t","t","i","n","g",":"," ","V","i","v","i",
      "d"," ","a","n","d"," ","i","m","m","e","r","s","i","v","e"," ","d","e","s","c","r","i",
      "p","t","i","o","n","s","\n","-"," ","P","l","o","t",":"," ","C","o","m","p","e","l","l",
      "i","n","g"," ","w","i","t","h"," ","c","o","n","f","l","i","c","t"," ","a","n","d"," ",
      "r","e","s","o","l","u","t","i","o","n","\n","\n","C","R","I","T","I","C","A","L"," ","I",
      "N","S","T","R","U","C","T","I","O","N","S",":","\n","-"," ","W","r","i","t","e"," ","O",
      "N","L","Y"," ","t","h","e"," ","s","t","o","r","y"," ","c","o","n","t","e","n","t","\n",
      "-"," ","D","o"," ","N","O","T"," ","i","n","c","l","u","d","e"," ","m","e","t","a","-",
      "c","o","m","m","e","n","t","a","r","y",","," ","e","x","p","l","a","n","a","t","i","o",
      "n","s",","," ","o","r"," ","a","n","a","l","y","s","i","s","\n","-"," ","D","o"," ","N",
      "O","T"," ","u","s","e"," ","n","u","m","b","e","r","e","d"," ","l","i","s","t","s"," ",
      "o","r"," ","b","u","l","l","e","t"," ","p","o","i","n","t","s","\n","-"," ","D","o"," ",
      "N","O","T"," ","b","r","e","a","k"," ","t","h","e"," ","s","t","o","r","y"," ","i","n",
      "t","o"," ","s","e","c","t","i","o","n","s"," ","o","r"," ","c","h","a","p","t","e","r",
      "s","\n","-"," ","C","r","e","a","t","e"," ","a"," ","f","l","o","w","i","n","g",","," ",
      "c","o","n","t","i","n","u","o","u","s"," ","n","a","r","r","a","t","i","v","e","\n","-",
      " ","S","t","a","r","t"," ","t","h","e"," ","s","t","o","r","y"," ","i","m","m","e","d",
      "i","a","t","e","l","y"," ","w","i","t","h"," ","a","c","t","i","o","n"," ","o","r"," ",
      "d","i","a","l","o","g","u","e","\n","-"," ","E","n","d"," ","w","i","t","h"," ","a"," ",
      "s","a","t","i","s","f","y","i","n","g"," ","c","o","n","c","l","u","s","i","o","n","\n",
      "\n","B","e","g","i","n"," ","w","r","i","t","i","n","g"," ","t","h","e"," ","s","t","o",
      "r","y"," ","n","o","w",":">>

\* a variant of create_story_prompt that looks the style up among the lengths
create_story_prompt_wrong_table(premise, style, length) ==
    PromptHead \o premise \o PromptStyle \o style \o PromptOpen
        \o DictGet(Lengths, style_instructions, style, DefaultDescr)
        \o PromptLength \o DictGet(Lengths, word_counts, length, DefaultWords)
        \o PromptTail

\* StoryGenerator.create_story_prompt
create_story_prompt(premise, style, length) ==
    PromptHead \o premise \o PromptStyle \o style \o PromptOpen
        \o DictGet(Styles, style_instructions, style, DefaultDescr)
        \o PromptLength \o DictGet(Lengths, word_counts, length, DefaultWords)
        \o PromptTail

(***************************************************************************)
(* generate_story (lines 98-115)                                           *)
(***************************************************************************)
ErrNoResponse ==
    <<"E","r","r","o","r",":"," ","N","o"," ","r","e","s","p","o","n","s","e"," ","f","r","o",
      "m"," ","A","I","."," ","P","l","e","a","s","e"," ","t","r","y"," ","a","g","a","i","n",
      ".">>

ErrGenerating ==
    <<"E","r","r","o","r"," ","g","e","n","e","r","a","t","i","n","g"," ","s","t","o","r","y",
      ":"," ">>

\* the marker main() tests for on line 203
ErrorMarker ==
    <<"E","r","r","o","r",":">>

\* the branch generate_story returns from, given what generate_content did:
\* it raised (response.kind = "raise", the message in response.text), returned
\* nothing (response.kind = "none") or returned response.text
GenKind(response) ==
    IF response.kind = "raise" THEN "exception"
    ELSE IF response.kind = "text" /\ response.text # <<>> THEN CleanKind(response.text)
    ELSE "no_response"

\* StoryGenerator.generate_story, as a function of what generate_content did
generate_story(response) ==
    IF response.kind = "raise" THEN ErrGenerating \o response.text
    ELSE IF response.kind = "text" /\ response.text # <<>> THEN clean_response(response.text)
    ELSE ErrNoResponse

(***************************************************************************)
(* The raw texts a backend may answer with (bounded)                       *)
(***************************************************************************)
\* the most sentences of a generated body
MaxSentences == 20

\* the most sentences of a body that repeat an earlier one
MaxDup == 7

\* the most consecutive "." that end a sentence ("..." is 3)
MaxDots == 3

\* n characters of running text without "." or ":": words of five letters
Filler(n) == [i \in 1..n |-> IF i % 6 = 0 THEN " " ELSE LowerLetters[(i % 6) + 10]]

\* the i-th distinct sentence, and a copy of it that differs in case and in
\* surrounding whitespace only
Sentence(i) == <<" ", UpperLetters[i], "o", "k">>

SentenceCopy(i) == <<" ", " ", LowerLetters[i], "O", "k", " ">>

Dots(k) == [i \in 1..k |-> "."]

\* a body of n sentences, the last d of them copies of the first ones, each
\* ended by `dots` terminators (the last one only when `closed`)
RECURSIVE BodyFrom(_, _, _, _, _)
BodyFrom(i, n, d, dots, closed) ==
    IF i > n THEN <<>>
    ELSE (IF i <= n - d THEN Sentence(i) ELSE SentenceCopy(((i - 1) % (n - d)) + 1))
         \o (IF i < n \/ closed THEN Dots(dots) ELSE <<>>)
         \o BodyFrom(i + 1, n, d, dots, closed)

Body(n, d, dots, closed) == BodyFrom(1, n, d, dots, closed)

Leads == {<<>>, <<" ">>, <<NL>>}

Preambles ==
    {<<>>,
     <<"S","t","o","r","y",":">>,
     <<"s","T","O","R","Y",":"," ">>,
     <<"H","e","r","e","'","s"," ","a"," ","s","t","o","r","y",":">>,
     <<"H","E","R","E"," ","I","S"," ","a"," ","s","h","o","r","t"," ","S","t","o","r","y"," ","f",
       "o","r"," ","y","o","u",":"," ">>,
     <<"T","h","i","s"," ","i","s"," ","a"," ","t","a","l","e",":">>,
     <<"H","e","r","e","'","s"," ","a","\n","s","t","o","r","y",":">>,
     <<"T","h","i","s"," ","i","s"," ","t","h","e"," ","s","t","o","r","y">>,
     <<"E","r","r","o","r",":"," ">>,
     <<"1","."," ","I","n","t","r","o","\n">>,
     <<"*"," ","N","o","t","e","\n">>}

SecondPreambles ==
    {<<>>,
     <<"S","t","o","r","y",":">>,
     <<"H","e","r","e","'","s"," ","a"," ","s","t","o","r","y",":">>}

Middles ==
    {<<>>,
     <<"\n","1","."," ","O","n","e","\n">>,
     <<"\n","*"," ","d","o","t","\n">>,
     <<"\n","\n","\n","\n">>,
     <<"\n","\n","*"," ","x","\n","\n">>,
     <<"\n","7"," ","d","w","a","r","f","s",".","\n">>,
     <<"\n","1","2">>,
     <<"\n","3","."," ","l","a","s","t">>}

\* answers that differ in their preamble and list lines, long enough to pass
PreambleInputs ==
    {lead \o pre \o second \o Filler(MinStoryLen) \o mid \o Body(2, 0, 1, TRUE) :
        lead \in Leads, pre \in Preambles, second \in SecondPreambles, mid \in Middles}

\* answers around the length threshold, and the empty and blank answers
LengthInputs ==
    {<<>>, <<" ">>, <<NL, NL, NL>>} \cup
    {lead \o pre \o Filler(n) \o trail :
        lead \in Leads, pre \in {<<>>, StoryColonLit},
        n \in (MinStoryLen - 2)..(MinStoryLen + 1), trail \in {<<>>, <<" ", NL>>}}

\* answers that differ in the number of sentences, repeats and terminators
SentenceInputs ==
    {Filler(p[1]) \o Body(p[2], p[3], p[4], p[5]) :
        p \in {q \in {0, MinStoryLen} \X (1..MaxSentences) \X (0..MaxDup)
                        \X (1..MaxDots) \X BOOLEAN : q[3] < q[2]}}

RawInputs == PreambleInputs \cup LengthInputs \cup SentenceInputs

(***************************************************************************)
(* The values the variables of the other specifications rest at            *)
(***************************************************************************)
NoStory == <<>>

NoConfig == [premise |-> <<>>, style |-> <<>>, length |-> <<>>]

CleanAtRest ==
    /\ raw = <<>>
    /\ cleaned = <<>>
    /\ recleaned = <<>>
    /\ phase = "raw"

PromptAtRest ==
    /\ args = NoConfig
    /\ prompt = <<>>

\* a fresh session: nothing in st.session_state, the widgets at their defaults
SessionAtStart ==
    /\ story_gen = FALSE
    /\ current_story = NoStory
    /\ story_config = NoConfig
    /\ example = 0
    /\ premise_w = <<>>
    /\ style_w = Styles[1]
    /\ length_w = Lengths[1]
    /\ pc = "idle"
    /\ clicked = "none"
    /\ rendered = {}
    /\ halted = FALSE
    /\ calls = 0
    /\ action_calls = 0
    /\ last_action = "none"
    /\ last_kind = "none"

AppAtRest ==
    /\ api_key = FALSE
    /\ SessionAtStart

(***************************************************************************)
(* SpecClean: clean_response applied to an answer, and to its own result   *)
(***************************************************************************)
InitClean ==
    /\ raw \in RawInputs
    /\ cleaned = <<>>
    /\ recleaned = <<>>
    /\ phase = "raw"
    /\ PromptAtRest
    /\ AppAtRest

\* cleaned_story = self.clean_response(response.text)
Clean ==
    /\ phase = "raw"
    /\ cleaned' = clean_response(raw)
    /\ phase' = "cleaned"
    /\ UNCHANGED <<raw, recleaned, promptVars, appVars>>

\* clean_response applied again to a text it returned as a story
Reclean ==
    /\ phase = "cleaned"
    /\ CleanKind(raw) = "ok"
    /\ recleaned' = clean_response(cleaned)
    /\ phase' = "recleaned"
    /\ UNCHANGED <<raw, cleaned, promptVars, appVars>>

NextClean == Clean \/ Reclean

SpecClean == InitClean /\ [][NextClean]_vars

(***************************************************************************)
(* SpecPrompt: create_story_prompt applied to its arguments                *)
(***************************************************************************)
\* the premises a user may type (bounded): empty, plain, with the f-string's
\* and the template's own punctuation
Premises ==
    {<<>>,
     <<"A"," ","c","a","t",".">>,
     <<"{","s","t","y","l","e","}"," ","(","x",")","\n","-"," ","L","e","n","g","t","h",":"," ","1">>,
     <<"S","t","o","r","y",":"," ","a"," ","d","r","a","g","o","n">>}

\* styles and lengths that are not keys of the tables
UnknownStyles ==
    {<<>>,
     <<"w","e","s","t","e","r","n">>,
     <<"F","a","n","t","a","s","y">>}

UnknownLengths ==
    {<<>>,
     <<"e","p","i","c">>,
     <<"S","h","o","r","t">>}

RangeOf(seq) == {seq[i] : i \in 1..Len(seq)}

InitPrompt ==
    /\ args \in [premise : Premises,
                 style : RangeOf(Styles) \cup UnknownStyles,
                 length : RangeOf(Lengths) \cup UnknownLengths]
    /\ prompt = <<>>
    /\ CleanAtRest
    /\ AppAtRest

\* prompt = self.create_story_prompt(premise, style, length)
BuildPrompt ==
    /\ prompt = <<>>
    /\ prompt' = create_story_prompt(args.premise, args.style, args.length)
    /\ UNCHANGED <<args, cleanVars, appVars>>

NextPrompt == BuildPrompt

SpecPrompt == InitPrompt /\ [][NextPrompt]_vars

(***************************************************************************)
(* Spec: the application, main() run by run (lines 117-285)                *)
(***************************************************************************)
\* the most generate_content calls of a behaviour
MaxCalls == 2

\* the user picks among the first MaxChoice options of each selectbox
MaxChoice == 2

\* what the user types as a premise (bounded): nothing, a blank, a premise
PremiseInputs ==
    {<<>>,
     <<" ">>,
     <<"A"," ","c","a","t",".">>}

ExamplePremise1 ==
    <<"A"," ","d","e","t","e","c","t","i","v","e"," ","f","i","n","d","s"," ","a"," ","d","o",
      "o","r"," ","t","h","a","t"," ","l","e","a","d","s"," ","t","o"," ","y","e","s","t","e",
      "r","d","a","y">>

ExamplePremise2 ==
    <<"A"," ","c","h","e","f"," ","d","i","s","c","o","v","e","r","s"," ","t","h","e","i","r",
      " ","s","p","i","c","e","s"," ","c","o","n","t","r","o","l"," ","e","m","o","t","i","o",
      "n","s">>

ExamplePremise3 ==
    <<"T","w","o"," ","a","s","t","r","o","n","a","u","t","s"," ","a","r","e"," ","s","t","r",
      "a","n","d","e","d"," ","o","n"," ","a"," ","b","e","a","u","t","i","f","u","l"," ","a",
      "l","i","e","n"," ","p","l","a","n","e","t">>

ExamplePremise4 ==
    <<"A"," ","l","i","b","r","a","r","i","a","n"," ","c","a","n"," ","h","e","a","r"," ","b",
      "o","o","k","s"," ","w","h","i","s","p","e","r","i","n","g"," ","t","h","e","i","r"," ",
      "s","e","c","r","e","t","s">>

\* the list of lines 246-251
examples ==
    <<[premise |-> ExamplePremise1, style |-> StyleMysterious],
      [premise |-> ExamplePremise2, style |-> StyleFantasy],
      [premise |-> ExamplePremise3, style |-> StyleScifi],
      [premise |-> ExamplePremise4, style |-> StyleFantasy]>>

ExceptionTexts ==
    {<<"t","i","m","e","o","u","t">>}

ShortStory ==
    <<"O","n","c","e"," ","u","p","o","n"," ","a"," ","t","i","m","e","."," ","T","h","e"," ",
      "e","n","d",".">>

GoodStory == Filler(MinStoryLen) \o Body(2, 0, 1, TRUE)

RepetitiveStory == Filler(MinStoryLen) \o Body(12, 6, 1, TRUE)

ErrorStory == ErrorMarker \o <<" ">> \o Filler(MinStoryLen) \o <<".">>

\* what generate_content may do when called (bounded): raise, return
\* nothing, return an empty text, return a text; the prompt it is called with
\* does not decide which
BackendAnswers ==
    {[kind |-> "raise", text |-> e] : e \in ExceptionTexts}
    \cup {[kind |-> "none", text |-> <<>>]}
    \cup {[kind |-> "text", text |-> t] :
            t \in {<<>>, ShortStory, GoodStory, RepetitiveStory, ErrorStory}}

\* a variant of initialize_client without the check of lines 18-20
initialize_client_unchecked(key, client_ok) ==
    IF client_ok THEN "client" ELSE "stop"

\* StoryGenerator._initialize_client (lines 15-26): "stop" when it ends in
\* st.stop(), "client" when it returns the client; client_ok is whether
\* genai.Client(api_key=...) returns
initialize_client(key, client_ok) ==
    IF ~key THEN "stop"
    ELSE IF client_ok THEN "client"
    ELSE "stop"

Init ==
    /\ api_key \in BOOLEAN
    /\ SessionAtStart
    /\ CleanAtRest
    /\ PromptAtRest

\* ---- the user and the environment, between two script runs ----

\* a user action starts a script run from the top of main()
StartRun(action, button) ==
    /\ pc = "idle"
    /\ pc' = "init"
    /\ clicked' = button
    /\ rendered' = {}
    /\ halted' = FALSE
    /\ action_calls' = 0
    /\ last_action' = action
    /\ UNCHANGED <<api_key, story_gen, current_story, story_config, example, calls,
                   last_kind, cleanVars, promptVars>>

\* line 9, load_dotenv(): a key put into .env is in the environment of the
\* next run; nothing takes a key out of the environment
ProvideKey ==
    /\ pc = "idle"
    /\ ~api_key
    /\ api_key' = TRUE
    /\ UNCHANGED <<story_gen, current_story, story_config, example, premise_w, style_w,
                   length_w, pc, clicked, rendered, halted, calls, action_calls,
                   last_action, last_kind, cleanVars, promptVars>>

\* the page is run again with no widget changed
Reload ==
    /\ StartRun("reload", "none")
    /\ UNCHANGED <<premise_w, style_w, length_w>>

\* lines 145-150: the user changes the premise
EditPremise ==
    /\ "form" \in rendered
    /\ \E p \in PremiseInputs \ {premise_w} : premise_w' = p
    /\ StartRun("edit", "none")
    /\ UNCHANGED <<style_w, length_w>>

\* lines 153-157: the user selects a style
SelectStyle ==
    /\ "form" \in rendered
    /\ \E i \in 1..MaxChoice : Styles[i] # style_w /\ style_w' = Styles[i]
    /\ StartRun("edit", "none")
    /\ UNCHANGED <<premise_w, length_w>>

\* lines 160-164: the user selects a length
SelectLength ==
    /\ "form" \in rendered
    /\ \E i \in 1..MaxChoice : Lengths[i] # length_w /\ length_w' = Lengths[i]
    /\ StartRun("edit", "none")
    /\ UNCHANGED <<premise_w, style_w>>

\* lines 167-172: the Generate button, which is enabled only with a premise
ClickGenerate ==
    /\ "generate" \in rendered
    /\ calls < MaxCalls
    /\ StartRun("generate", "generate")
    /\ UNCHANGED <<premise_w, style_w, length_w>>

\* line 205: the Try Again button under an error
ClickTryAgain ==
    /\ "try_again" \in rendered
    /\ StartRun("try_again", "try_again")
    /\ UNCHANGED <<premise_w, style_w, length_w>>

\* line 237: the Generate New Version button under a story
ClickNewVersion ==
    /\ "new_version" \in rendered
    /\ StartRun("new_version", "new_version")
    /\ UNCHANGED <<premise_w, style_w, length_w>>

\* line 256: one of the example buttons
ClickExample ==
    /\ "examples" \in rendered
    /\ calls < MaxCalls
    /\ \E i \in 1..Len(examples) : StartRun("example", <<"example", i>>)
    /\ UNCHANGED <<premise_w, style_w, length_w>>

\* ---- one script run of main(), step by step ----

\* st.rerun(): this run ends and the script runs again from the top, no
\* button clicked
Rerun ==
    /\ pc' = "init"
    /\ clicked' = "none"
    /\ rendered' = {}

\* lines 127-128 with 'story_gen' not in st.session_state: StoryGenerator()
\* either ends the run in st.stop(), before the assignment, or is stored
InitStoryGen ==
    /\ pc = "init"
    /\ ~story_gen
    /\ \E client_ok \in BOOLEAN :
          IF initialize_client(api_key, client_ok) = "stop"
          THEN /\ halted' = TRUE
               /\ pc' = "idle"
               /\ UNCHANGED story_gen
          ELSE /\ story_gen' = TRUE
               /\ pc' = "form"
               /\ UNCHANGED halted
    /\ UNCHANGED <<api_key, current_story, story_config, example, premise_w, style_w,
                   length_w, clicked, rendered, calls, action_calls, last_action,
                   last_kind, cleanVars, promptVars>>

\* lines 127-128 with 'story_gen' in st.session_state
InitSkip ==
    /\ pc = "init"
    /\ story_gen
    /\ pc' = "form"
    /\ UNCHANGED <<api_key, story_gen, current_story, story_config, example, premise_w,
                   style_w, length_w, clicked, rendered, halted, calls, action_calls,
                   last_action, last_kind, cleanVars, promptVars>>

\* the widgets of lines 141-175 as this run renders them
FormButtons == {"form"} \cup (IF Strip(premise_w) # <<>> THEN {"generate"} ELSE {})

\* lines 182-190 and 269-275: the blocking call of generate_story and the two
\* assignments to st.session_state
CallGenerate(premise, style, length) ==
    \E response \in BackendAnswers :
        /\ current_story' = generate_story(response)
        /\ story_config' = [premise |-> premise, style |-> style, length |-> length]
        /\ last_kind' = GenKind(response)
        /\ calls' = calls + 1
        /\ action_calls' = action_calls + 1

\* lines 141-190 with generate_btn and premise.strip()
FormGenerate ==
    /\ pc = "form"
    /\ clicked = "generate" /\ Strip(premise_w) # <<>>
    /\ CallGenerate(premise_w, style_w, length_w)
    /\ rendered' = rendered \cup FormButtons
    /\ pc' = "display"
    /\ UNCHANGED <<api_key, story_gen, example, premise_w, style_w, length_w, clicked,
                   halted, last_action, cleanVars, promptVars>>

\* lines 141-190 otherwise
FormOnly ==
    /\ pc = "form"
    /\ ~(clicked = "generate" /\ Strip(premise_w) # <<>>)
    /\ rendered' = rendered \cup FormButtons
    /\ pc' = "display"
    /\ UNCHANGED <<api_key, story_gen, current_story, story_config, example, premise_w,
                   style_w, length_w, clicked, halted, calls, action_calls, last_action,
                   last_kind, cleanVars, promptVars>>

\* line 203: story.startswith("Error:")
ShownAsError(story) == StartsWith(story, ErrorMarker)

\* line 240: no current_story yet
DisplayInfo ==
    /\ pc = "display"
    /\ current_story = NoStory
    /\ pc' = "examples"
    /\ UNCHANGED <<api_key, story_gen, current_story, story_config, example, premise_w,
                   style_w, length_w, clicked, rendered, halted, calls, action_calls,
                   last_action, last_kind, cleanVars, promptVars>>

\* lines 203-206: the story is shown by st.error with the Try Again button,
\* whose click is answered by st.rerun()
DisplayError ==
    /\ pc = "display"
    /\ current_story # NoStory
    /\ ShownAsError(current_story)
    /\ IF clicked = "try_again"
       THEN Rerun
       ELSE /\ rendered' = rendered \cup {"try_again"}
            /\ pc' = "examples"
            /\ UNCHANGED clicked
    /\ UNCHANGED <<api_key, story_gen, current_story, story_config, example, premise_w,
                   style_w, length_w, halted, calls, action_calls, last_action,
                   last_kind, cleanVars, promptVars>>

\* lines 207-238: the story is shown with the Generate New Version button,
\* whose click is answered by st.rerun()
DisplayStory ==
    /\ pc = "display"
    /\ current_story # NoStory
    /\ ~ShownAsError(current_story)
    /\ IF clicked = "new_version"
       THEN Rerun
       ELSE /\ rendered' = rendered \cup {"new_version"}
            /\ pc' = "examples"
            /\ UNCHANGED clicked
    /\ UNCHANGED <<api_key, story_gen, current_story, story_config, example, premise_w,
                   style_w, length_w, halted, calls, action_calls, last_action,
                   last_kind, cleanVars, promptVars>>

\* lines 253-259: the example buttons; a clicked one stores its example and
\* calls st.rerun()
ExampleButtons ==
    /\ pc = "examples"
    /\ IF clicked \in {<<"example", i>> : i \in 1..Len(examples)}
       THEN /\ example' = clicked[2]
            /\ Rerun
       ELSE /\ rendered' = rendered \cup {"examples"}
            /\ pc' = "handle_example"
            /\ UNCHANGED <<example, clicked>>
    /\ UNCHANGED <<api_key, story_gen, current_story, story_config, premise_w, style_w,
                   length_w, halted, calls, action_calls, last_action, last_kind,
                   cleanVars, promptVars>>

\* lines 262-276: a stored example is taken out of the session state, its
\* story generated and stored, and st.rerun() called
HandleExample ==
    /\ pc = "handle_example"
    /\ example # 0
    /\ CallGenerate(examples[example].premise, examples[example].style, LengthShort)
    /\ example' = 0
    /\ Rerun
    /\ UNCHANGED <<api_key, story_gen, premise_w, style_w, length_w, halted,
                   last_action, cleanVars, promptVars>>

\* lines 262 and 278-285: no stored example; the run ends with the footer
EndRun ==
    /\ pc = "handle_example"
    /\ example = 0
    /\ pc' = "idle"
    /\ UNCHANGED <<api_key, story_gen, current_story, story_config, example, premise_w,
                   style_w, length_w, clicked, rendered, halted, calls, action_calls,
                   last_action, last_kind, cleanVars, promptVars>>

Next ==
    \/ ProvideKey
    \/ Reload
    \/ EditPremise
    \/ SelectStyle
    \/ SelectLength
    \/ ClickGenerate
    \/ ClickTryAgain
    \/ ClickNewVersion
    \/ ClickExample
    \/ InitStoryGen
    \/ InitSkip
    \/ FormGenerate
    \/ FormOnly
    \/ DisplayInfo
    \/ DisplayError
    \/ DisplayStory
    \/ ExampleButtons
    \/ HandleExample
    \/ EndRun

Spec == Init /\ [][Next]_vars

(***************************************************************************)
(* Properties of clean_response (under SpecClean)                          *)
(***************************************************************************)
\* clean_response has returned, and returned raw's cleaned text as a story
ReturnedOk == phase # "raw" /\ CleanKind(raw) = "ok"

\* text begins with one of the preambles of lines 76-77
BeginsWithPreamble(text) ==
    PreambleEnd(text) # 0 \/ MatchesAtCI(text, 1, StoryColonLit)

\* C2: a text that clean_response returned as a story is returned unchanged
\* when clean_response is applied to it again.
C2_Idempotent == phase = "recleaned" => recleaned = cleaned

\* C5: a text that clean_response returns as a story does not begin with
\* "Story:" nor with "Here's" / "Here is" / "This is" ... "story" ... ":" on its
\* first line (case-insensitively).
C5_NoPreambleLeft == ReturnedOk => ~BeginsWithPreamble(cleaned)

\* C10: a text that clean_response returns as a story never begins with the
\* marker "Error:".
C10_OkNeverMarked == ReturnedOk => ~StartsWith(cleaned, ErrorMarker)

\* the sentences of a text as the claims count them: the "."-separated
\* pieces, trimmed and case-folded
Sentences(text) ==
    LET pieces == Split(text, 1)
    IN  [k \in 1..Len(pieces) |-> Lower(Strip(pieces[k]))]

NonEmpty(sentences) == {k \in 1..Len(sentences) : sentences[k] # <<>>}

\* the non-empty sentences that repeat an earlier sentence
Duplicates(sentences) ==
    {k \in NonEmpty(sentences) : \E j \in 1..(k - 1) : sentences[j] = sentences[k]}

\* raw's cleaned text is long enough to reach the repetition check
LongEnough == phase # "raw" /\ raw # <<>> /\ Len(Cleaned(raw)) >= MinStoryLen

\* C3 as stated: with 11 or more sentences of which at least 30% are
\* duplicates, a long enough text gets the repetitive rejection.
C3_AtLeast30PercentRejected ==
    LongEnough =>
        LET sentences == Sentences(Cleaned(raw))
        IN  (/\ Len(sentences) >= 11
             /\ 10 * Cardinality(Duplicates(sentences)) >= 3 * Len(sentences))
            => cleaned = ErrRepetitive

\* C3 as amended: with 11 or more sentences of which more than 30% are
\* duplicates, a long enough text gets the repetitive rejection; and so does
\* every long enough text of more than 10 sentences whose ratio of unique
\* sentences to sentences is below 0.7.
C3_MoreThan30PercentRejected ==
    LongEnough =>
        LET sentences == Sentences(Cleaned(raw))
            duplicates == Cardinality(Duplicates(sentences))
            unique == Cardinality(NonEmpty(sentences)) - duplicates
        IN  /\ (Len(sentences) >= 11 /\ 10 * duplicates > 3 * Len(sentences))
               => cleaned = ErrRepetitive
            /\ (Len(sentences) > 10 /\ 10 * unique < 7 * Len(sentences))
               => cleaned = ErrRepetitive

\* C3's case: a text of 11 or more sentences, none empty and more than 30% of
\* them copies that differ in case and spacing, has been rejected as
\* repetitive
C3_Witness ==
    /\ LongEnough
    /\ LET sentences == Sentences(Cleaned(raw))
       IN  /\ Len(sentences) >= 11
           /\ 10 * Cardinality(Duplicates(sentences)) > 3 * Len(sentences)
           /\ NonEmpty(sentences) = 1..Len(sentences)
    /\ cleaned = ErrRepetitive

\* C4: a long enough text whose non-empty sentences are pairwise distinct is
\* returned as a story, whatever the number of "." in it.
C4_DistinctAccepted ==
    (LongEnough /\ Duplicates(Sentences(Cleaned(raw))) = {}) => cleaned = Cleaned(raw)

\* C7: the empty text gets the empty rejection, a text whose cleaned form has
\* fewer than 100 characters gets the too-short rejection, and a text
\* returned as a story has at least 100 characters and no whitespace at
\* either end.
C7_LengthContract ==
    phase # "raw" =>
        /\ raw = <<>> => cleaned = ErrEmpty
        /\ (raw # <<>> /\ Len(Cleaned(raw)) < MinStoryLen) => cleaned = ErrTooShort
        /\ cleaned \notin {ErrEmpty, ErrTooShort, ErrRepetitive} =>
              /\ Len(cleaned) >= MinStoryLen
              /\ cleaned[1] \notin Whitespace
              /\ cleaned[Len(cleaned)] \notin Whitespace

\* C7's case: a story of exactly 100 characters was returned for a text with
\* whitespace around it
C7_Witness ==
    /\ ReturnedOk
    /\ Len(cleaned) = MinStoryLen
    /\ raw[1] \in Whitespace
    /\ raw[Len(raw)] \in Whitespace

(***************************************************************************)
(* Properties of create_story_prompt (under SpecPrompt)                    *)
(***************************************************************************)
\* sub occurs in text
Contains(text, sub) ==
    \E i \in 1..(Len(text) - Len(sub) + 1) : SubSeq(text, i, i + Len(sub) - 1) = sub

\* the descriptor the table of lines 37-46 gives a style, "engaging" for any
\* other
ExpectedDescr(style) ==
    CASE style = StyleAdventurous -> DescrAdventurous
      [] style = StyleMysterious -> DescrMysterious
      [] style = StyleRomantic -> DescrRomantic
      [] style = StyleScifi -> DescrScifi
      [] style = StyleFantasy -> DescrFantasy
      [] style = StyleHorror -> DescrHorror
      [] style = StyleComedy -> DescrComedy
      [] style = StyleDrama -> DescrDrama
      [] OTHER -> DefaultDescr

\* the word-count range the table of lines 31-35 gives a length, "500 words"
\* for any other
ExpectedWords(length) ==
    CASE length = LengthShort -> WordsShort
      [] length = LengthMedium -> WordsMedium
      [] length = LengthLong -> WordsLong
      [] OTHER -> DefaultWords

\* C6: for every premise, style and length the prompt contains the premise
\* verbatim, the style with its descriptor (the table's, or "engaging") in
\* parentheses, and the length hint (the table's, or "500 words") on the
\* Length line.
C6_PromptContents ==
    prompt # <<>> =>
        /\ Contains(prompt, args.premise)
        /\ Contains(prompt, PromptStyle \o args.style \o PromptOpen
                                \o ExpectedDescr(args.style) \o <<")">>)
        /\ Contains(prompt, <<"L","e","n","g","t","h",":"," ">>
                                \o ExpectedWords(args.length) \o <<NL>>)

\* C6's case: a prompt was built for a premise, a style of the table and a
\* length that is not in the table
C6_Witness ==
    /\ prompt # <<>>
    /\ args.premise # <<>>
    /\ args.style = StyleScifi
    /\ args.length \in UnknownLengths

(***************************************************************************)
(* Properties of the application (under Spec)                              *)
(***************************************************************************)
FailureKinds == {"exception", "no_response", "empty", "too_short", "repetitive"}

\* C1: every failure outcome of generate_story is a text that begins with
\* "Error:", so that line 203 shows it as an error.
C1_FailuresMarked == last_kind \in FailureKinds => ShownAsError(current_story)

\* C8: while GEMINI_API_KEY is absent no StoryGenerator is in the session
\* state, no generate_content call has been made and no run gets past the
\* construction; and a run that ended in st.stop(), for a missing key or a
\* failed client construction, stored no StoryGenerator and rendered nothing.
C8_FailsClosed ==
    /\ ~api_key => (~story_gen /\ calls = 0 /\ pc \in {"idle", "init"} /\ rendered = {})
    /\ halted => (~story_gen /\ calls = 0 /\ pc = "idle" /\ rendered = {})

\* C8's case: without a key, a run of the page has ended in st.stop()
C8_Witness == ~api_key /\ halted /\ pc = "idle" /\ last_action = "reload"

TriggerActions == {"generate", "example", "try_again", "new_version"}

\* C9: when the script has finished with a trigger action (Generate, an
\* example button, Try Again, Generate New Version), exactly one
\* generate_content call was made for it.
C9_OneCallPerTrigger ==
    (pc = "idle" /\ last_action \in TriggerActions) => action_calls = 1

====
